---- MODULE Spec2Model ----
(***************************************************************************)
(* Model of src/app.py: the statement analyser.  One run of the script is  *)
(* upload -> parse_transactions_from_text -> smart_income_detection ->     *)
(* smart_expense_detection -> affordability calculation -> verdict.        *)
(*                                                                         *)
(* Representation.  A Python str is a sequence of one-character strings,   *)
(* so slicing (date[:7]), "in", lower() and split() are computed as the    *)
(* code computes them.  Amounts are whole rands (the parser's x.00         *)
(* values).  Derived money is kept exact as scaled integers: net_income,   *)
(* estimated_other_debt and discretionary_income in cents, max_payment in  *)
(* thirds of a cent, the two ratios as <<numerator, denominator>> of a     *)
(* percentage.  max_loan is in cents, computed in fixed point with four     *)
(* decimals (the annuity factor 19.253 for the code's 19.276).             *)
(***************************************************************************)
EXTENDS Integers, Sequences, FiniteSets, TLC

VARIABLES pc, upload, transactions, messages, ran,
          monthly_income, monthly_expenses,
          estimated_other_debt, net_income, discretionary_income,
          max_payment, max_loan, affordability_ratio, debt_service_ratio,
          nca_compliant, verdict, reasons

vars == <<pc, upload, transactions, messages, ran, monthly_income, monthly_expenses, estimated_other_debt, net_income, discretionary_income, max_payment, max_loan, affordability_ratio, debt_service_ratio, nca_compliant, verdict, reasons>>

calc_vars == <<estimated_other_debt, net_income, discretionary_income, max_payment, max_loan, affordability_ratio, debt_service_ratio, nca_compliant>>

(***************************************************************************)
(* Bounds of the model.                                                    *)
(***************************************************************************)
\* longest statement (number of parsed transactions) under Spec
MaxTx == 4
\* longest statement under SpecDates
MaxTxDates == 2
\* longest statement under SpecOrder
MaxTxOrder == 3
\* recurring expenses 0, 100, ..., 100 * MaxExpenseK under SpecCalc
MaxExpenseK == 110

(***************************************************************************)
(* Python str and list helpers.                                            *)
(***************************************************************************)
Min(a, b) == IF a < b THEN a ELSE b

Abs(x) == IF x < 0 THEN -x ELSE x

\* s[:n]
Prefix(s, n) == SubSeq(s, 1, Min(n, Len(s)))

\* p in s, for strings
Contains(s, p) == \E i \in 0..(Len(s) - Len(p)) : SubSeq(s, i + 1, i + Len(p)) = p

UpperCase == <<"A","B","C","D","E","F","G","H","I","J","K","L","M","N","O","P","Q","R","S","T","U","V","W","X","Y","Z">>

LowerCase == <<"a","b","c","d","e","f","g","h","i","j","k","l","m","n","o","p","q","r","s","t","u","v","w","x","y","z">>

LowerChar(c) == IF \E i \in 1..Len(UpperCase) : UpperCase[i] = c THEN LowerCase[CHOOSE i \in 1..Len(UpperCase) : UpperCase[i] = c] ELSE c

\* s.lower()
Lower(s) == [i \in 1..Len(s) |-> LowerChar(s[i])]

\* s.split(): the maximal runs of non-blank characters
RECURSIVE SplitFrom(_, _, _)
SplitFrom(s, i, word) ==
    IF i > Len(s) THEN (IF word = <<>> THEN <<>> ELSE <<word>>)
    ELSE IF s[i] = " " THEN (IF word = <<>> THEN SplitFrom(s, i + 1, <<>>) ELSE <<word>> \o SplitFrom(s, i + 1, <<>>))
    ELSE SplitFrom(s, i + 1, Append(word, s[i]))

Split(s) == SplitFrom(s, 1, <<>>)

\* ' '.join(words)
RECURSIVE Join(_)
Join(words) ==
    IF words = <<>> THEN <<>>
    ELSE IF Len(words) = 1 THEN words[1]
    ELSE words[1] \o <<" ">> \o Join(Tail(words))

\* round(x, -k) of a non-negative float with an integral value: to the
\* nearest multiple of unit = 10^k, a tie going to the even multiple
RoundTo(x, unit) ==
    LET q == x \div unit
        r == x % unit
    IN  IF 2 * r < unit THEN q * unit
        ELSE IF 2 * r > unit THEN (q + 1) * unit
        ELSE IF q % 2 = 0 THEN q * unit
        ELSE (q + 1) * unit

RECURSIVE SumSeq(_)
SumSeq(s) == IF s = <<>> THEN 0 ELSE Head(s) + SumSeq(Tail(s))

MaxOf(S) == CHOOSE x \in S : \A y \in S : y <= x

(***************************************************************************)
(* Calendar month of a date token, by the three formats of date_pattern    *)
(* (YYYY-MM-DD, DD/MM/YYYY, DD-MM-YYYY): its year and month digits.        *)
(***************************************************************************)
IsIsoDate(date) == date[5] = "-"

DateFormat(date) == IF IsIsoDate(date) THEN "YYYY-MM-DD" ELSE IF date[3] = "/" THEN "DD/MM/YYYY" ELSE "DD-MM-YYYY"

CalendarMonth(date) == IF IsIsoDate(date) THEN <<SubSeq(date, 1, 4), SubSeq(date, 6, 7)>> ELSE <<SubSeq(date, 7, 10), SubSeq(date, 4, 5)>>

CalendarMonths(dates) == {CalendarMonth(dates[i]) : i \in 1..Len(dates)}

(***************************************************************************)
(* A dict is a sequence of [key, ...] entries in insertion order.          *)
(***************************************************************************)
HasKey(groups, key) == \E i \in 1..Len(groups) : groups[i].key = key

\* groups[key].append(date) on a defaultdict(list)
AppendToGroup(groups, key, date) ==
    IF HasKey(groups, key)
    THEN [i \in 1..Len(groups) |-> IF groups[i].key = key THEN [groups[i] EXCEPT !.dates = Append(@, date)] ELSE groups[i]]
    ELSE Append(groups, [key |-> key, dates |-> <<date>>])

\* set(date[:7] for date in dates if '-' in date or '/' in date)
MonthKeys(dates) == {Prefix(dates[i], 7) : i \in {j \in 1..Len(dates) : Contains(dates[j], <<"-">>) \/ Contains(dates[j], <<"/">>)}}

(***************************************************************************)
(* The descriptions on the statements of the model, as the parser keeps    *)
(* them (stripped, at most 50 characters).                                 *)
(***************************************************************************)
MtnDebitOrder == <<"M","T","N"," ","D","e","b","i","t"," ","O","r","d","e","r">>

DiscPremMedical == <<"D","i","s","c"," ","P","r","e","m"," ","M","e","d","i","c","a","l">>

SalaryNyefin == <<"S","a","l","a","r","y"," ","N","y","e","f","i","n">>

PaymentReceived == <<"P","a","y","m","e","n","t"," ","R","e","c","e","i","v","e","d">>

CashDeposit == <<"C","a","s","h"," ","D","e","p","o","s","i","t">>

AdminFee == <<"A","d","m","i","n"," ","F","e","e">>

Descriptions == {MtnDebitOrder, DiscPremMedical, SalaryNyefin, PaymentReceived, CashDeposit, AdminFee}

(***************************************************************************)
(* smart_expense_detection                                                 *)
(***************************************************************************)
expense_patterns ==
    << [cat |-> "insurance", patterns |-> <<<<"d","i","r","e","c","t"," ","d","e","b","i","t"," ","d","i","s","c">>, <<"d","i","s","c","l","i","f","e">>, <<"d","i","s","c"," ","p","r","e","m">>, <<"d","i","s","c"," ","i","n","v","t">>, <<"l","e","g","a","c","y">>, <<"i","n","s","u","r","a","n","c","e">>, <<"m","e","d","i","c","a","l"," ","a","i","d">>>>],
       [cat |-> "loans", patterns |-> <<<<"w","e","s","t","e","r","n">>, <<"l","o","a","n">>, <<"f","i","n","a","n","c","e">>, <<"c","r","e","d","i","t">>>>],
       [cat |-> "children", patterns |-> <<<<"k","i","n","d","e","r","s">>, <<"c","h","i","l","d">>, <<"s","k","o","o","l">>, <<"s","c","h","o","o","l">>, <<"n","a","s","o","r","g">>, <<"o","n","d","e","r","h","o","u","d">>, <<"v","e","r","b","l","y","f">>, <<"m","a","i","n","t","e","n","a","n","c","e">>>>],
       [cat |-> "utilities", patterns |-> <<<<"p","r","e","p","a","i","d"," ","d","e","b","i","t"," ","e","l","e","c","t","r","i","c","i","t","y">>, <<"e","l","e","c","t","r","i","c","i","t","y">>, <<"m","u","n","i","c","i","p","a","l">>, <<"w","a","t","e","r">>>>],
       [cat |-> "cellular", patterns |-> <<<<"m","t","n">>, <<"v","o","d","a","c","o","m">>, <<"c","e","l","l"," ","c">>, <<"t","e","l","k","o","m">>>>],
       [cat |-> "vehicle", patterns |-> <<<<"t","r","a","c","k","e","r">>, <<"i","n","s","u","r","a","n","c","e">>, <<"f","u","e","l">>, <<"a","a">>>>],
       [cat |-> "other_debits", patterns |-> <<<<"d","i","r","e","c","t"," ","d","e","b","i","t">>, <<"s","t","o","p"," ","o","r","d","e","r">>, <<"d","e","b","i","t"," ","o","r","d","e","r">>>>] >>

\* of smart_income_detection; here because DescriptionFacts reads it
income_patterns == <<<<"s","a","l","a","r","y">>, <<"c","r","e","d","i","t">>, <<"p","a","y">>, <<"w","a","g","e">>, <<"i","n","c","o","m","e">>, <<"n","y","e","f","i","n">>, <<"s","c","a","n","f","i","n">>>>

admin_fee_patterns == <<<<"t","r","a","n","s","a","c","t","i","o","n"," ","c","h","a","r","g","e">>, <<"a","d","m","i","n"," ","f","e","e">>, <<"n","o","t","i","f","i","c","a","t","i","o","n"," ","f","e","e">>>>

\* any(pattern in desc_lower for pattern in patterns)
AnyPattern(desc_lower, patterns) == \E i \in 1..Len(patterns) : Contains(desc_lower, patterns[i])

\* for cat, patterns in expense_patterns.items(): the first category, in
\* the dict's order, one of whose patterns occurs; 'other' if none does
RECURSIVE CategorizeFrom(_, _)
CategorizeFrom(desc_lower, i) ==
    IF i > Len(expense_patterns) THEN "other"
    ELSE IF AnyPattern(desc_lower, expense_patterns[i].patterns) THEN expense_patterns[i].cat
    ELSE CategorizeFrom(desc_lower, i + 1)

Categorize(desc_lower) == CategorizeFrom(desc_lower, 1)

\* ' '.join([word for word in desc_lower.split()[:3] if len(word) > 2])
KeyWords(desc_lower) == Join(SelectSeq(Prefix(Split(desc_lower), 3), LAMBDA word : Len(word) > 2))

\* any(x in desc_lower for x in ['transaction charge', 'admin fee', 'notification fee'])
IsAdminFee(desc) == AnyPattern(Lower(desc), admin_fee_patterns)

\* the category and key_words[:20] of a description
CategoryAndKeyWords(desc) == <<Categorize(Lower(desc)), Prefix(KeyWords(Lower(desc)), 20)>>

\* any(pattern in desc_lower for pattern in income_patterns)
HasIncomeWord(desc) == AnyPattern(Lower(desc), income_patterns)

\* the three readings of each description, computed once
DescriptionFacts == [d \in Descriptions |-> [admin_fee |-> IsAdminFee(d), group |-> CategoryAndKeyWords(d), income_word |-> HasIncomeWord(d)]]

\* (category, round(abs(amount), -1), key_words[:20])
ExpenseGroupKey(desc, amount) == <<DescriptionFacts[desc].group[1], RoundTo(Abs(amount), 10), DescriptionFacts[desc].group[2]>>

\* the test of the grouping loop: a debit above R100 that is no admin fee
IsGroupedDebit(t) == t.amount < -100 /\ ~DescriptionFacts[t.desc].admin_fee

RECURSIVE ExpenseGroupsFrom(_, _, _)
ExpenseGroupsFrom(txs, i, groups) ==
    IF i > Len(txs) THEN groups
    ELSE IF IsGroupedDebit(txs[i])
         THEN ExpenseGroupsFrom(txs, i + 1, AppendToGroup(groups, ExpenseGroupKey(txs[i].desc, txs[i].amount), txs[i].date))
         ELSE ExpenseGroupsFrom(txs, i + 1, groups)

expense_groups(txs) == ExpenseGroupsFrom(txs, 1, <<>>)

\* len(months) >= 2 and len(dates) >= 2
IsRecurringExpense(dates) == Cardinality(MonthKeys(dates)) >= 2 /\ Len(dates) >= 2

\* recurring_expenses: key -> len(dates), in the order of expense_groups
recurring_expenses(txs) ==
    LET groups == expense_groups(txs)
        kept == SelectSeq(groups, LAMBDA g : IsRecurringExpense(g.dates))
    IN  [i \in 1..Len(kept) |-> [key |-> kept[i].key, count |-> Len(kept[i].dates)]]

\* sum(amount for (cat, amount, desc), count in recurring_expenses.items())
total_expense(rec) == SumSeq([i \in 1..Len(rec) |-> rec[i].key[2]])

\* sorted(recurring_expenses.items(), key=lambda x: x[1][0], reverse=True):
\* x[1] is the int count, so the key function raises TypeError on the
\* first item; with no item it is never called
DetailsSortRaises(rec) == Len(rec) >= 1

\* the call's outcome, from its recurring_expenses: it raises, or returns
\* (total_expense, details), details being '' as nothing is recurring
ExpenseOutcome(rec) == [raised |-> DetailsSortRaises(rec), total_expense |-> total_expense(rec), details |-> <<>>]

smart_expense_detection(txs) == ExpenseOutcome(recurring_expenses(txs))

(***************************************************************************)
(* smart_income_detection                                                  *)
(***************************************************************************)
\* the fallback when no credit qualifies at all
default_income == 15000

\* the test of the grouping loop: a credit above R1000 with an income word
IsGroupedCredit(t) == t.amount > 1000 /\ DescriptionFacts[t.desc].income_word

\* group_key = round(amount, -2)
IncomeGroupKey(amount) == RoundTo(amount, 100)

RECURSIVE IncomeGroupsFrom(_, _, _)
IncomeGroupsFrom(txs, i, groups) ==
    IF i > Len(txs) THEN groups
    ELSE IF IsGroupedCredit(txs[i])
         THEN IncomeGroupsFrom(txs, i + 1, AppendToGroup(groups, IncomeGroupKey(txs[i].amount), txs[i].date))
         ELSE IncomeGroupsFrom(txs, i + 1, groups)

income_groups(txs) == IncomeGroupsFrom(txs, 1, <<>>)

\* len(months) >= 2
IsRecurringIncome(dates) == Cardinality(MonthKeys(dates)) >= 2

\* recurring_income: amount -> len(dates), in the order of income_groups
recurring_income(txs) ==
    LET groups == income_groups(txs)
        kept == SelectSeq(groups, LAMBDA g : IsRecurringIncome(g.dates))
    IN  [i \in 1..Len(kept) |-> [key |-> kept[i].key, count |-> Len(kept[i].dates)]]

\* a slip: the recurring amounts added up instead of the largest taken
SelectRecurringIncomeSum(rec) == SumSeq([i \in 1..Len(rec) |-> rec[i].key])

\* max(recurring_income.keys())
SelectRecurringIncome(rec) == MaxOf({rec[i].key : i \in 1..Len(rec)})

\* credits = [amount for _, _, amount in transactions if amount > 5000]
FallbackCredits(txs) == {txs[i].amount : i \in {j \in 1..Len(txs) : txs[j].amount > 5000}}

\* a slip: min(credits) for max(credits)
FallbackIncomeSmallest(txs) == IF FallbackCredits(txs) # {} THEN CHOOSE x \in FallbackCredits(txs) : \A y \in FallbackCredits(txs) : x <= y ELSE default_income

\* a slip: credits[0], the first large credit of the scan, for max(credits)
FallbackIncomeFirst(txs) == IF FallbackCredits(txs) # {} THEN txs[CHOOSE i \in 1..Len(txs) : txs[i].amount > 5000 /\ \A j \in 1..(i - 1) : txs[j].amount <= 5000].amount ELSE default_income

\* max(credits) if credits else 15000
FallbackIncome(txs) == IF FallbackCredits(txs) # {} THEN MaxOf(FallbackCredits(txs)) ELSE default_income

smart_income_detection(txs) ==
    LET rec == recurring_income(txs)
    IN  IF rec # <<>> THEN SelectRecurringIncome(rec) ELSE FallbackIncome(txs)

(***************************************************************************)
(* Affordability calculation.  Incomes and expenses are in rands; cents    *)
(* are rands * 100.                                                        *)
(***************************************************************************)
loan_term == 24

\* percent per year
interest_rate == 22

\* the smallest loan that is offered, in rands
min_loan == 1000

\* monthly_income * 0.10, in cents
EstimatedOtherDebt(income) == income * 10

\* monthly_income * 0.75, in cents
NetIncome(income) == income * 75

\* a slip: the expenses added to the net income instead of subtracted
DiscretionaryIncomeAddsExpenses(income, expenses) == NetIncome(income) + expenses * 100 - EstimatedOtherDebt(income)

\* net_income - monthly_expenses - estimated_other_debt, in cents
DiscretionaryIncome(income, expenses) == NetIncome(income) - expenses * 100 - EstimatedOtherDebt(income)

\* a slip: a buffer of 3 (discretionary_income / 3) for the buffer of 1.5
MaxPaymentBufferThree(disc) == IF disc > 0 THEN disc ELSE 0

\* discretionary_income / 1.5 if it is positive, else 0; in thirds of a cent
MaxPayment(disc) == IF disc > 0 THEN 2 * disc ELSE 0

\* fixed point with four decimals
FixedOne == 10 * 1000

\* interest_rate / 100 / 12
monthly_rate == (interest_rate * FixedOne) \div (100 * 12)

\* (1 + monthly_rate) ** n
RECURSIVE Growth(_)
Growth(n) == IF n = 0 THEN FixedOne ELSE (Growth(n - 1) * (FixedOne + monthly_rate)) \div FixedOne

\* ((1 + r)**term - 1) / (r * (1 + r)**term), in thousandths
AnnuityFactor == ((Growth(loan_term) - FixedOne) * FixedOne) \div ((monthly_rate * Growth(loan_term)) \div 1000)

\* floor(a * b / c) without a product larger than b * c
MulDiv(a, b, c) == (a \div c) * b + ((a % c) * b) \div c

\* max_payment * annuity factor if discretionary income is positive, else
\* 0; in cents
MaxLoan(disc) == IF disc > 0 THEN MulDiv(MaxPayment(disc) \div 3, AnnuityFactor, 1000) ELSE 0

\* (discretionary_income / net_income * 100) if net_income > 0 else 0
AffordabilityRatio(disc, net) == IF net > 0 THEN <<disc * 100, net>> ELSE <<0, 1>>

\* (max_payment / net_income * 100) if net_income > 0 else 0
DebtServiceRatio(payment, net) == IF net > 0 THEN <<payment * 100, 3 * net>> ELSE <<0, 1>>

\* comparisons of a ratio <<n, d>>, d > 0, with a whole percentage
PctGE(ratio, pct) == ratio[1] >= pct * ratio[2]

PctLE(ratio, pct) == ratio[1] <= pct * ratio[2]

PctLT(ratio, pct) == ratio[1] < pct * ratio[2]

PctGT(ratio, pct) == ratio[1] > pct * ratio[2]

\* a slip: "or" for "and" between the three tests
NcaCompliantAnyTest(disc, aff, dsr) == disc > 0 \/ PctGE(aff, 25) \/ PctLE(dsr, 30)

\* discretionary_income > 0 and affordability_ratio >= 25 and debt_service_ratio <= 30
NcaCompliant(disc, aff, dsr) == disc > 0 /\ PctGE(aff, 25) /\ PctLE(dsr, 30)

\* if nca_compliant and max_loan >= 1000
Qualifies(compliant, loan) == compliant /\ loan >= min_loan * 100

\* the record of everything the calculation assigns
Assessment(income, expenses) ==
    LET net == NetIncome(income)
        disc == DiscretionaryIncome(income, expenses)
        payment == MaxPayment(disc)
        aff == AffordabilityRatio(disc, net)
        dsr == DebtServiceRatio(payment, net)
    IN  [estimated_other_debt |-> EstimatedOtherDebt(income), net_income |-> net, discretionary_income |-> disc, max_payment |-> payment, max_loan |-> MaxLoan(disc), affordability_ratio |-> aff, debt_service_ratio |-> dsr, nca_compliant |-> NcaCompliant(disc, aff, dsr)]

(***************************************************************************)
(* Decline reasons, in the order the code appends them.                    *)
(***************************************************************************)
ReasonIncomeLow(income) == IF income < 8000 THEN <<"income_too_low">> ELSE <<>>

ReasonExpensesHigh(income, expenses) == IF 10 * expenses > 6 * income THEN <<"expenses_too_high">> ELSE <<>>

ReasonNoDiscretionary(disc) == IF disc <= 0 THEN <<"no_discretionary_income">> ELSE <<>>

ReasonAffordability(aff) == IF PctLT(aff, 25) THEN <<"affordability_ratio_too_low">> ELSE <<>>

\* a slip: the reason's threshold 60 where the compliance test has 30
ReasonDebtServiceAboveSixty(dsr) == IF PctGT(dsr, 60) THEN <<"debt_service_ratio_too_high">> ELSE <<>>

ReasonDebtService(dsr) == IF PctGT(dsr, 30) THEN <<"debt_service_ratio_too_high">> ELSE <<>>

ReasonLoanFloor(loan) == IF loan < min_loan * 100 THEN <<"loan_below_minimum">> ELSE <<>>

DeclineReasons(income, expenses, disc, aff, dsr, loan) == ReasonIncomeLow(income) \o ReasonExpensesHigh(income, expenses) \o ReasonNoDiscretionary(disc) \o ReasonAffordability(aff) \o ReasonDebtService(dsr) \o ReasonLoanFloor(loan)

(***************************************************************************)
(* Inputs: what parse_transactions_from_text can append, one (date,        *)
(* description, amount) per statement line with a date and an amount.      *)
(***************************************************************************)
Tx(date, desc, amount) == [date |-> date, desc |-> desc, amount |-> amount]

\* two debit series and two credit series over two months, with amounts
\* that fall into one bucket, one larger one-off credit, and the salary
\* twice in one month of a DD/MM/YYYY statement
StatementLines ==
    { Tx(<<"2","0","2","4","-","0","3","-","0","5">>, MtnDebitOrder, -500), Tx(<<"2","0","2","4","-","0","4","-","0","5">>, MtnDebitOrder, -504),
      Tx(<<"2","0","2","4","-","0","3","-","0","5">>, DiscPremMedical, -125), Tx(<<"2","0","2","4","-","0","4","-","0","5">>, DiscPremMedical, -115),
      Tx(<<"2","0","2","4","-","0","3","-","0","5">>, SalaryNyefin, 25040), Tx(<<"2","0","2","4","-","0","4","-","0","5">>, SalaryNyefin, 24960),
      Tx(<<"2","0","2","4","-","0","3","-","0","5">>, PaymentReceived, 12050), Tx(<<"2","0","2","4","-","0","4","-","0","5">>, PaymentReceived, 11950),
      Tx(<<"2","0","2","4","-","0","3","-","0","5">>, CashDeposit, 30000),
      Tx(<<"0","5","/","0","3","/","2","0","2","4">>, SalaryNyefin, 25040), Tx(<<"2","0","/","0","3","/","2","0","2","4">>, SalaryNyefin, 24960) }

\* the date tokens of the three formats: same month, next month, same
\* month of another year
DateTokens == { <<"2","0","2","4","-","0","3","-","0","5">>, <<"2","0","2","4","-","0","3","-","2","0">>, <<"2","0","2","4","-","0","4","-","0","5">>, <<"2","0","2","3","-","0","3","-","0","5">>, <<"0","5","/","0","3","/","2","0","2","4">>, <<"2","0","/","0","3","/","2","0","2","4">>, <<"0","5","/","0","3","/","2","0","2","3">>, <<"0","5","-","0","3","-","2","0","2","4">>, <<"0","5","-","0","4","-","2","0","2","4">> }

\* one debit series and one credit series on every date token, and a fee
DatedLines == {Tx(d, MtnDebitOrder, -500) : d \in DateTokens} \cup {Tx(d, SalaryNyefin, 25040) : d \in DateTokens} \cup {Tx(<<"2","0","2","4","-","0","3","-","0","5">>, AdminFee, -150)}

\* detected incomes and recurring expenses the calculation is applied to
Incomes == {1200, 4000, 8000, 15000, 16000, 20000, 24000, 30000}

Expenses == {100 * k : k \in 0..MaxExpenseK}

(***************************************************************************)
(* State machine of one run of the script.                                 *)
(***************************************************************************)
NoRatio == <<0, 1>>

Init ==
    /\ pc = "upload"
    /\ upload = "none"
    /\ transactions = <<>>
    /\ messages = <<>>
    /\ ran = {}
    /\ monthly_income = 0
    /\ monthly_expenses = 0
    /\ estimated_other_debt = 0
    /\ net_income = 0
    /\ discretionary_income = 0
    /\ max_payment = 0
    /\ max_loan = 0
    /\ affordability_ratio = NoRatio
    /\ debt_service_ratio = NoRatio
    /\ nca_compliant = FALSE
    /\ verdict = "none"
    /\ reasons = <<>>

\* a CSV upload: read, then st.error and st.stop()
UploadCsv ==
    /\ pc = "upload"
    /\ upload' = "csv"
    /\ messages' = Append(messages, "csv_not_implemented")
    /\ pc' = "stopped"
    /\ UNCHANGED <<transactions, ran, monthly_income, monthly_expenses, calc_vars, verdict, reasons>>

\* a PDF whose extract_pdf_text is empty (no text, or the caught exception)
UploadPdfNoText ==
    /\ pc = "upload"
    /\ upload' = "pdf"
    /\ messages' = Append(messages, "pdf_no_text")
    /\ pc' = "stopped"
    /\ UNCHANGED <<transactions, ran, monthly_income, monthly_expenses, calc_vars, verdict, reasons>>

\* a PDF with text: parse_transactions_from_text starts
UploadPdf ==
    /\ pc = "upload"
    /\ upload' = "pdf"
    /\ pc' = "parsing"
    /\ ran' = ran \cup {"parse_transactions_from_text"}
    /\ UNCHANGED <<transactions, messages, monthly_income, monthly_expenses, calc_vars, verdict, reasons>>

\* a statement prints its dates in one format: a further line has the
\* format of the lines before it
InStatementFormat(t) == IF transactions = <<>> THEN TRUE ELSE DateFormat(t.date) = DateFormat(transactions[1].date)

\* one line of the statement with a date, an amount and a description
ParseLine(t, max) ==
    /\ pc = "parsing"
    /\ Len(transactions) < max
    /\ transactions' = Append(transactions, t)
    /\ UNCHANGED <<pc, upload, messages, ran, monthly_income, monthly_expenses, calc_vars, verdict, reasons>>

\* if not transactions: st.error, st.stop()
EmptyStop ==
    /\ pc = "parsing"
    /\ transactions = <<>>
    /\ messages' = Append(messages, "no_transactions_found")
    /\ pc' = "stopped"
    /\ UNCHANGED <<upload, transactions, ran, monthly_income, monthly_expenses, calc_vars, verdict, reasons>>

\* a slip: the detection run without the "if not transactions" stop
DetectWithoutEmptyCheck ==
    /\ pc = "parsing"
    /\ messages' = Append(messages, "found_transactions")
    /\ monthly_income' = smart_income_detection(transactions)
    /\ ran' = ran \cup {"smart_income_detection", "smart_expense_detection"}
    /\ pc' = "detected"
    /\ monthly_expenses' = smart_expense_detection(transactions).total_expense
    /\ UNCHANGED <<upload, transactions, calc_vars, verdict, reasons>>

\* st.success, then the two detection calls; the second may raise
Detect ==
    /\ pc = "parsing"
    /\ transactions # <<>>
    /\ messages' = Append(messages, "found_transactions")
    /\ monthly_income' = smart_income_detection(transactions)
    /\ ran' = ran \cup {"smart_income_detection", "smart_expense_detection"}
    /\ \E outcome \in {smart_expense_detection(transactions)} :
         IF outcome.raised
         THEN /\ pc' = "exception"
              /\ UNCHANGED monthly_expenses
         ELSE /\ pc' = "detected"
              /\ monthly_expenses' = outcome.total_expense
    /\ UNCHANGED <<upload, transactions, calc_vars, verdict, reasons>>

\* the affordability calculation and the NCA compliance check
Calculate ==
    /\ pc = "detected"
    /\ LET a == Assessment(monthly_income, monthly_expenses)
       IN  /\ estimated_other_debt' = a.estimated_other_debt
           /\ net_income' = a.net_income
           /\ discretionary_income' = a.discretionary_income
           /\ max_payment' = a.max_payment
           /\ max_loan' = a.max_loan
           /\ affordability_ratio' = a.affordability_ratio
           /\ debt_service_ratio' = a.debt_service_ratio
           /\ nca_compliant' = a.nca_compliant
    /\ pc' = "calculated"
    /\ ran' = ran \cup {"calculation"}
    /\ UNCHANGED <<upload, transactions, messages, monthly_income, monthly_expenses, verdict, reasons>>

\* the verdict box and, on a decline, the reasons
Display ==
    /\ pc = "calculated"
    /\ IF Qualifies(nca_compliant, max_loan)
       THEN /\ verdict' = "qualify"
            /\ reasons' = <<>>
       ELSE /\ verdict' = "decline"
            /\ reasons' = DeclineReasons(monthly_income, monthly_expenses, discretionary_income, affordability_ratio, debt_service_ratio, max_loan)
    /\ pc' = "displayed"
    /\ UNCHANGED <<upload, transactions, messages, ran, monthly_income, monthly_expenses, calc_vars>>

Analyse == EmptyStop \/ Detect \/ Calculate \/ Display

Next == UploadCsv \/ UploadPdfNoText \/ UploadPdf \/ (\E t \in StatementLines : InStatementFormat(t) /\ ParseLine(t, MaxTx)) \/ Analyse

Spec == Init /\ [][Next]_vars

\* the same run over statements that vary the date token
NextDates == UploadCsv \/ UploadPdfNoText \/ UploadPdf \/ (\E t \in DatedLines : InStatementFormat(t) /\ ParseLine(t, MaxTxDates)) \/ Analyse

SpecDates == Init /\ [][NextDates]_vars

\* the same run over shorter statements, for the checks over reorderings
NextOrder == UploadCsv \/ UploadPdfNoText \/ UploadPdf \/ (\E t \in StatementLines : InStatementFormat(t) /\ ParseLine(t, MaxTxOrder)) \/ Analyse

SpecOrder == Init /\ [][NextOrder]_vars

\* the calculation and the verdict as a function of the two detected figures
InitCalc ==
    /\ pc = "detected"
    /\ upload = "pdf"
    /\ transactions = <<>>
    /\ messages = <<"found_transactions">>
    /\ ran = {"parse_transactions_from_text", "smart_income_detection", "smart_expense_detection"}
    /\ monthly_income \in Incomes
    /\ monthly_expenses \in Expenses
    /\ estimated_other_debt = 0
    /\ net_income = 0
    /\ discretionary_income = 0
    /\ max_payment = 0
    /\ max_loan = 0
    /\ affordability_ratio = NoRatio
    /\ debt_service_ratio = NoRatio
    /\ nca_compliant = FALSE
    /\ verdict = "none"
    /\ reasons = <<>>

NextCalc == Calculate \/ Display

SpecCalc == InitCalc /\ [][NextCalc]_vars

(***************************************************************************)
(* What the detection is meant to compute, stated over the set of the      *)
(* transactions rather than over the scan.                                 *)
(***************************************************************************)
RECURSIVE SumSet(_)
SumSet(S) == IF S = {} THEN 0 ELSE LET x == CHOOSE y \in S : TRUE IN x + SumSet(S \ {x})

\* the sum of the rounded amounts of a set of expense group keys
RECURSIVE SumKeyAmounts(_)
SumKeyAmounts(K) == IF K = {} THEN 0 ELSE LET k == CHOOSE y \in K : TRUE IN k[2] + SumKeyAmounts(K \ {k})

DebitIndices(txs, key) == {i \in 1..Len(txs) : IsGroupedDebit(txs[i]) /\ ExpenseGroupKey(txs[i].desc, txs[i].amount) = key}

DebitKeys(txs) == {ExpenseGroupKey(txs[i].desc, txs[i].amount) : i \in {j \in 1..Len(txs) : IsGroupedDebit(txs[j])}}

CreditIndices(txs, bucket) == {i \in 1..Len(txs) : IsGroupedCredit(txs[i]) /\ IncomeGroupKey(txs[i].amount) = bucket}

CreditBuckets(txs) == {IncomeGroupKey(txs[i].amount) : i \in {j \in 1..Len(txs) : IsGroupedCredit(txs[j])}}

\* the debit groups the code classifies recurring
RecurringDebitKeys(txs) == {k \in DebitKeys(txs) : Cardinality(DebitIndices(txs, k)) >= 2 /\ Cardinality({Prefix(txs[i].date, 7) : i \in DebitIndices(txs, k)}) >= 2}

\* the credit groups the code classifies recurring
RecurringCreditBuckets(txs) == {b \in CreditBuckets(txs) : Cardinality({Prefix(txs[i].date, 7) : i \in CreditIndices(txs, b)}) >= 2}

\* at least 2 occurrences in at least 2 distinct calendar months
SpansTwoCalendarMonths(dates) == Len(dates) >= 2 /\ Cardinality(CalendarMonths(dates)) >= 2

Permute(txs, p) == [i \in 1..Len(txs) |-> txs[p[i]]]

Reorderings(txs) == {Permute(txs, p) : p \in Permutations(1..Len(txs))}

Detected == "smart_expense_detection" \in ran

Calculated == pc \in {"calculated", "displayed"}

(***************************************************************************)
(* Claims.                                                                 *)
(***************************************************************************)

\* C1: in both detections a group is classified recurring if and only if it
\* has at least 2 occurrences in at least 2 distinct calendar months
\* (year and month), whatever the format of its date tokens.
C1_RecurringIffTwoCalendarMonths ==
    Detected =>
        /\ \A i \in 1..Len(expense_groups(transactions)) : IsRecurringExpense(expense_groups(transactions)[i].dates) <=> SpansTwoCalendarMonths(expense_groups(transactions)[i].dates)
        /\ \A i \in 1..Len(income_groups(transactions)) : IsRecurringIncome(income_groups(transactions)[i].dates) <=> SpansTwoCalendarMonths(income_groups(transactions)[i].dates)

\* C2: smart_expense_detection returns normally for every statement, and
\* the total it returns is the sum of the rounded amounts of all the
\* recurring debit groups.
C2_ExpenseTotalIsSumAndReturns ==
    Detected => (pc # "exception" /\ monthly_expenses = SumKeyAmounts(RecurringDebitKeys(transactions)))

C4_FallbackIncome ==
    Detected =>
        /\ monthly_income > 0
        /\ RecurringCreditBuckets(transactions) = {} =>
              LET big == {i \in 1..Len(transactions) : transactions[i].amount > 5000}
              IN  IF big = {} THEN monthly_income = 15000
                  ELSE /\ \E i \in big : transactions[i].amount = monthly_income
                       /\ \A i \in big : transactions[i].amount <= monthly_income

C4_Witness ==
    /\ Detected
    /\ RecurringCreditBuckets(transactions) = {}
    /\ Cardinality({transactions[i].amount : i \in {j \in 1..Len(transactions) : transactions[j].amount > 5000}}) >= 2
    /\ monthly_income = 30000

\* C5: whenever the verdict is a decline, the list of decline reasons has at
\* least one entry.
C5_DeclineHasReason == (pc = "displayed" /\ verdict = "decline") => reasons # <<>>

\* a decline that only one of the six tests explains
C5_Witness ==
    /\ pc = "displayed"
    /\ verdict = "decline"
    /\ reasons = <<"debt_service_ratio_too_high">>

C7_MaxLoanMonotone ==
    Calculated =>
        /\ \A i \in Incomes : i >= monthly_income => Assessment(i, monthly_expenses).max_loan >= max_loan
        /\ \A e \in Expenses : e >= monthly_expenses => Assessment(monthly_income, e).max_loan <= max_loan

C7_Witness ==
    /\ Calculated
    /\ max_loan > 0
    /\ \E i \in Incomes : i > monthly_income /\ Assessment(i, monthly_expenses).max_loan > max_loan
    /\ \E e \in Expenses : e > monthly_expenses /\ Assessment(monthly_income, e).max_loan < max_loan

\* C8: when discretionary income is exactly 0, max_payment and max_loan are
\* 0, nca_compliant is false and the verdict is a decline.
C8_ZeroDiscretionary ==
    (Calculated /\ discretionary_income = 0) =>
        /\ max_payment = 0
        /\ max_loan = 0
        /\ ~nca_compliant
        /\ (pc = "displayed" => verdict = "decline")

C8_Witness ==
    /\ pc = "displayed"
    /\ discretionary_income = 0
    /\ monthly_expenses > 0
    /\ verdict = "decline"

\* C9: for every reordering of the statement both detections give what
\* they gave for the statement itself (the same income, the same expense
\* outcome and total), and the groups found recurring are the same, being
\* decided by the set of each group's dates.
C9_OrderIrrelevant ==
    pc \in {"detected", "exception"} =>
        \A q \in Reorderings(transactions) :
            /\ smart_income_detection(q) = monthly_income
            /\ smart_expense_detection(q) = smart_expense_detection(transactions)
            /\ smart_expense_detection(q).raised = (pc = "exception")
            /\ (pc = "detected" => smart_expense_detection(q).total_expense = monthly_expenses)
            /\ {recurring_income(q)[i].key : i \in 1..Len(recurring_income(q))} = RecurringCreditBuckets(transactions)
            /\ {recurring_expenses(q)[i].key : i \in 1..Len(recurring_expenses(q))} = RecurringDebitKeys(transactions)

\* three different lines, two of them one recurring credit group
C9_Witness ==
    /\ pc = "detected"
    /\ Len(transactions) = 3
    /\ Cardinality(Reorderings(transactions)) = 6
    /\ RecurringCreditBuckets(transactions) # {}
    /\ \E i \in 1..3 : transactions[i].amount > monthly_income

\* C10: max_payment is discretionary income / 1.5, so nca_compliant holds
\* only with an affordability ratio from 25% to 45%; with no recurring
\* expense the ratio is between 86% and 87%, the applicant is not compliant
\* and the verdict is never "qualify".
C10_CompliantOnlyBetween25And45 ==
    Calculated =>
        /\ (discretionary_income > 0 => max_payment = 2 * discretionary_income)
        /\ (nca_compliant => (PctGE(affordability_ratio, 25) /\ PctLE(affordability_ratio, 45)))
        /\ (monthly_expenses = 0 =>
              /\ PctGT(affordability_ratio, 86) /\ PctLT(affordability_ratio, 87)
              /\ ~nca_compliant
              /\ verdict # "qualify")

C10_Witness ==
    /\ pc = "displayed"
    /\ monthly_expenses = 0
    /\ monthly_income >= 8000
    /\ verdict = "decline"

====
